---------------------------- MODULE Spec2Model ----------------------------
(***************************************************************************)
(* State-machine model of the retrieval-augmented chat assistant:          *)
(*   - RAGChatbot   (chat, callOpenRouterAPI, executeToolCall,             *)
(*                   resetConversation)                                    *)
(*   - WebScraper   (fetchPageContent, fetchMultiplePages, the cache)      *)
(*   - SitemapParser.searchUrls                                            *)
(* Every await of the JavaScript source is a step boundary; the code       *)
(* between two awaits runs as one atomic action.                           *)
(***************************************************************************)
EXTENDS Integers, Sequences, FiniteSets, TLC

VARIABLES
    conversationHistory,  \* RAGChatbot.conversationHistory
    urls,                 \* SitemapParser.urls (the loaded URL index)
    cache,                \* WebScraper.cache : url -> PageContent (or NoEntry)
    chat,                 \* one record per chat() call slot (locals of the call)
    fm,                   \* one record per fetchMultiplePages()/fetchPageContent() caller
    clock,                \* wall clock read by new Date() in fetchPageContent
    nChats,               \* number of chat() calls started so far
    search,               \* the last searchUrls() call: arguments and return value
    lastOp                \* name of the operation that ran last

vars == <<conversationHistory, urls, cache, chat, fm, clock, nChats, search, lastOp>>

-----------------------------------------------------------------------------
(* Bounds of the model *)

\* chat() call slots that may overlap
NumProcs == 2
\* callers of the scraper that are not chat calls
NumFetchers == 2
\* chat() calls started in one behaviour of Spec
MaxChats == 2
\* chat() calls started in one behaviour of SpecHist
MaxTurns == 6
\* iterations of one chat call in which the remote model picks among all responses
VariedIterations == 2
\* largest value of the wall clock
MaxClock == 1
\* chat() calls started in one behaviour of SpecTool and of SpecLive
MaxToolChats == 1
\* chat() calls started in one behaviour of SpecOverlap
MaxOverlapTurns == 6
\* largest limit a search is asked for
MaxLimit == 5

(* Program constants *)

\* chat: let maxIterations = 10
maxIterations == 10
\* callOpenRouterAPI(messages, retries = 3)
retries == 3
\* (mutant) the history is cut to an odd number of entries
HistoryLimitOdd == 10 - 1
\* chat: conversationHistory.slice(-10)
HistoryLimit == 10
\* executeToolCall: args.urls.slice(0, 3)
FetchLimit == 3
\* fetchMultiplePages(urls, maxConcurrent = 3)
maxConcurrent == 3
\* executeToolCall: args.limit || 5
DefaultLimit == 5
\* callOpenRouterAPI: 1000 * Math.pow(2, attempt - 1)
BackoffBase == 1000
\* callOpenRouterAPI: Math.min(..., 5000)
BackoffCap == 5000

Procs == 1..NumProcs
Fetchers == (NumProcs + 1)..(NumProcs + NumFetchers)
Owners == Procs \cup Fetchers
\* the chat slot used by the sequential specifications
Solo == {1}

-----------------------------------------------------------------------------
(* Generic helpers *)

Min(a, b) == IF a <= b THEN a ELSE b
Max(a, b) == IF a >= b THEN a ELSE b

RECURSIVE Pow2(_)
Pow2(n) == IF n <= 0 THEN 1 ELSE 2 * Pow2(n - 1)

\* Array.prototype.slice(begin, end) on a 1-based sequence, JavaScript index rules
JsSlice(s, begin, end) ==
    LET n  == Len(s)
        b  == IF begin < 0 THEN Max(n + begin, 0) ELSE Min(begin, n)
        e  == IF end < 0 THEN Max(n + end, 0) ELSE Min(end, n)
    IN  IF e <= b THEN <<>> ELSE SubSeq(s, b + 1, e)

\* Array.prototype.slice(-k)
LastN(s, k) == JsSlice(s, 0 - k, Len(s))

-----------------------------------------------------------------------------
(* Text: a string is a sequence of one-character strings *)

UpperCase == 
    <<"A","B","C","D","E","F","G","H","I","J","K","L","M">>
    \o <<"N","O","P","Q","R","S","T","U","V","W","X","Y","Z">>
LowerCase == 
    <<"a","b","c","d","e","f","g","h","i","j","k","l","m">>
    \o <<"n","o","p","q","r","s","t","u","v","w","x","y","z">>

LowerChar(c) ==
    IF \E i \in 1..Len(UpperCase) : UpperCase[i] = c
    THEN LowerCase[CHOOSE i \in 1..Len(UpperCase) : UpperCase[i] = c]
    ELSE c

\* String.prototype.toLowerCase
ToLowerCase(s) == [i \in 1..Len(s) |-> LowerChar(s[i])]

\* String.prototype.includes
Includes(s, t) ==
    \E i \in 0..(Len(s) - Len(t)) : \A j \in 1..Len(t) : s[i + j] = t[j]

\* String.prototype.split(' ')
RECURSIVE SplitFrom(_, _, _)
SplitFrom(s, i, cur) ==
    IF i > Len(s) THEN <<cur>>
    ELSE IF s[i] = " " THEN <<cur>> \o SplitFrom(s, i + 1, <<>>)
    ELSE SplitFrom(s, i + 1, Append(cur, s[i]))

Split(s) == SplitFrom(s, 1, <<>>)

\* Array.prototype.filter
Filter(s, Keep(_)) == SelectSeq(s, Keep)

-----------------------------------------------------------------------------
(* SitemapParser *)

UrlRecord(u, cat, kw) == [url |-> u, category |-> cat, keywords |-> kw]

\* the index as loadSitemaps leaves it: pages, then posts, then products
SiteUrls ==
    << UrlRecord("U1", "page", <<"w","p"," ","h","o","s","t","i","n","g">>),
       UrlRecord("U2", "blog", <<"b","l","o","g"," ","w","p"," ","t","i","p","s">>),
       UrlRecord("U3", "product", <<"s","s","l"," ","c","e","r","t">>),
       UrlRecord("U4", "page", <<"s","s","l"," ","h","o","s","t","i","n","g">>) >>

URLs == {"U1", "U2", "U3", "U4"}

\* an index with the records of /wordpress-hosting, /blog/wordpress-tips
\* and /ssl-certificate
WordpressUrls ==
    << UrlRecord("U1", "page", <<"w","o","r","d","p","r","e","s","s"," ","h","o","s","t","i","n","g">>),
       UrlRecord("U2", "blog", 
                  <<"b","l","o","g"," ","w","o","r","d","p","r","e","s","s"," ","t","i","p","s">>),
       UrlRecord("U3", "product", <<"s","s","l"," ","c","e","r","t","i","f","i","c","a","t","e">>) >>

HasAny(q, words) == \E w \in words : Includes(q, w)

\* (mutant) the phrase match is not scored
ScoreWithoutPhrase(urlData, queryLower, queryWords) ==
    10 * Cardinality({i \in 1..Len(queryWords) :
                          Includes(urlData.keywords, queryWords[i])})
    + (IF /\ HasAny(queryLower, { <<"p","r","o","d","u","c","t">>,
                                   <<"p","r","i","c","i","n","g">>,
                                   <<"b","u","y">> })
          /\ urlData.category = "product" THEN 20 ELSE 0)
    + (IF /\ HasAny(queryLower, { <<"b","l","o","g">>,
                                   <<"a","r","t","i","c","l","e">>,
                                   <<"h","o","w"," ","t","o">> })
          /\ urlData.category = "blog" THEN 20 ELSE 0)

\* searchUrls: the score of one record
Score(urlData, queryLower, queryWords) ==
    (IF Includes(urlData.keywords, queryLower) THEN 100 ELSE 0)
    + 10 * Cardinality({i \in 1..Len(queryWords) :
                            Includes(urlData.keywords, queryWords[i])})
    + (IF /\ HasAny(queryLower, { <<"p","r","o","d","u","c","t">>,
                                   <<"p","r","i","c","i","n","g">>,
                                   <<"b","u","y">> })
          /\ urlData.category = "product" THEN 20 ELSE 0)
    + (IF /\ HasAny(queryLower, { <<"b","l","o","g">>,
                                   <<"a","r","t","i","c","l","e">>,
                                   <<"h","o","w"," ","t","o">> })
          /\ urlData.category = "blog" THEN 20 ELSE 0)

\* Array.prototype.sort((a, b) => b.score - a.score): stable, descending
RECURSIVE InsertByScore(_, _)
InsertByScore(sorted, item) ==
    IF sorted = <<>> THEN <<item>>
    ELSE IF Head(sorted).score >= item.score
         THEN <<Head(sorted)>> \o InsertByScore(Tail(sorted), item)
         ELSE <<item>> \o sorted

RECURSIVE SortByScore(_)
SortByScore(s) ==
    IF s = <<>> THEN <<>>
    ELSE InsertByScore(SortByScore(SubSeq(s, 1, Len(s) - 1)), s[Len(s)])

IsLongWord(w) == Len(w) > 2
HasScore(item) == item.score > 0

searchUrls(index, query, limit) ==
    LET queryLower == ToLowerCase(query)
        queryWords == Filter(Split(queryLower), IsLongWord)
        scored == [i \in 1..Len(index) |->
                     [url |-> index[i].url, category |-> index[i].category,
                      keywords |-> index[i].keywords,
                      score |-> Score(index[i], queryLower, queryWords)]]
    IN  JsSlice(SortByScore(Filter(scored, HasScore)), 0, limit)

-----------------------------------------------------------------------------
(* Calls of SitemapParser.searchUrls *)

NoSearch == [via |-> "none", query |-> <<>>, limit |-> 0, results |-> <<>>, error |-> FALSE]

\* sitemapParser.searchUrls(query, limit) called directly
SearchUrls(query, limit) ==
    /\ search' = [via |-> "direct", query |-> query, limit |-> limit,
                  results |-> searchUrls(urls, query, limit), error |-> FALSE]
    /\ lastOp' = "search"
    /\ UNCHANGED <<conversationHistory, urls, cache, chat, fm, clock, nChats>>

-----------------------------------------------------------------------------
(* WebScraper *)

\* the result object of fetchPageContent (lines 75-81)
PageContent(u, body, now) ==
    [url |-> u, ok |-> TRUE, content |-> body, fetchedAt |-> now, error |-> "none"]

\* the record fetchMultiplePages puts in place of a failed fetch (lines 102-105),
\* built from the Error thrown at line 89
ErrorRecord(u) ==
    [url |-> u, ok |-> FALSE, content |-> 0, fetchedAt |-> 0, error |-> "Failed to fetch"]

NoValue == [url |-> "none", ok |-> FALSE, content |-> 0, fetchedAt |-> 0, error |-> "pending"]

EmptyCache == [u \in {} |-> NoValue]

\* Map.prototype.has / get / set
CacheHas(c, u) == u \in DOMAIN c
CacheGet(c, u) == c[u]
CacheSet(c, u, v) == [x \in (DOMAIN c) \cup {u} |-> IF x = u THEN v ELSE c[x]]

\* (mutant) the cache is not consulted
FetchPageStartNoCache(c, u) ==
    [url |-> u, st |-> "pending", val |-> NoValue, net |-> TRUE]

\* fetchPageContent up to its first await: a cache hit returns at once,
\* otherwise the GET is issued and the call is suspended
FetchPageStart(c, u) ==
    IF CacheHas(c, u)
    THEN [url |-> u, st |-> "fulfilled", val |-> CacheGet(c, u), net |-> FALSE]
    ELSE [url |-> u, st |-> "pending", val |-> NoValue, net |-> TRUE]

\* (mutant) an entry already in the cache is kept
CacheAfterFetchKeepsFirst(c, u, result) ==
    IF CacheHas(c, u) THEN c ELSE CacheSet(c, u, result)

\* what a call writes to the cache when its GET succeeds (line 84)
CacheAfterFetch(c, u, result) == CacheSet(c, u, result)

IdleCall ==
    [st |-> "idle", kind |-> "none", urls |-> <<>>, i |-> 0, results |-> <<>>,
     batch |-> <<>>]

Settled(batch) == \A k \in 1..Len(batch) : batch[k].st # "pending"

\* (mutant) the entries whose fetch failed are left out of the batch's results
BatchValuesDropsFailures(batch) ==
    LET Ok(v) == v.ok
    IN  SelectSeq([k \in 1..Len(batch) |-> batch[k].val], Ok)

\* const batchResults = await Promise.all(batchPromises) (line 108)
BatchValues(batch) == [k \in 1..Len(batch) |-> batch[k].val]

\* fetchMultiplePages from the top of the loop at index i until a batch has a
\* request in flight or the list is exhausted (lines 99-112)
RECURSIVE RunBatches(_, _, _, _, _)
RunBatches(c, urlList, i, results, width) ==
    IF i >= Len(urlList)
    THEN [st |-> "resolved", kind |-> "many", urls |-> urlList, i |-> i,
          results |-> results, batch |-> <<>>]
    ELSE LET slice == JsSlice(urlList, i, i + width)
             batch == [k \in 1..Len(slice) |-> FetchPageStart(c, slice[k])]
         IN  IF Settled(batch)
             THEN RunBatches(c, urlList, i + width, results \o BatchValues(batch), width)
             ELSE [st |-> "running", kind |-> "many", urls |-> urlList, i |-> i,
                   results |-> results, batch |-> batch]

\* (mutant) every page of the list is requested at once
fetchMultiplePagesUnbatched(c, urlList) ==
    RunBatches(c, urlList, 0, <<>>, Max(Len(urlList), 1))

fetchMultiplePages(c, urlList) == RunBatches(c, urlList, 0, <<>>, maxConcurrent)

\* a direct fetchPageContent(url) call
fetchPageContent(c, u) ==
    LET e == FetchPageStart(c, u)
    IN  [st |-> IF e.st = "pending" THEN "running" ELSE "resolved", kind |-> "one",
         urls |-> <<u>>, i |-> 0,
         results |-> IF e.st = "pending" THEN <<>> ELSE <<e.val>>,
         batch |-> <<e>>]

\* the outcome of one GET: the document the server sent, or a failure
\* (timeout, connection error, status outside 2xx)
GetOutcomes == [ok : {TRUE}, body : {1}] \cup [ok : {FALSE}, body : {0}]

\* the entry of a suspended fetchPageContent after its GET completed:
\* lines 31-86 on success, lines 87-90 (and the .catch of line 102) on failure
EntryAfterGet(call, e, outcome, now) ==
    IF outcome.ok
    THEN [e EXCEPT !.st = "fulfilled", !.val = PageContent(e.url, outcome.body, now)]
    ELSE IF call.kind = "many"
         THEN [e EXCEPT !.st = "fulfilled", !.val = ErrorRecord(e.url)]
         ELSE [e EXCEPT !.st = "rejected", !.val = ErrorRecord(e.url)]

\* the caller's record after entry k of its batch completed
CallAfterGet(c, call, k, outcome, now) ==
    LET batch == [call.batch EXCEPT ![k] = EntryAfterGet(call, call.batch[k], outcome, now)]
    IN  IF ~Settled(batch) THEN [call EXCEPT !.batch = batch]
        ELSE IF call.kind = "one"
             THEN [call EXCEPT !.batch = batch,
                               !.st = IF batch[1].st = "rejected" THEN "rejected"
                                      ELSE "resolved",
                               !.results = <<batch[1].val>>]
             ELSE RunBatches(c, call.urls, call.i + maxConcurrent,
                             call.results \o BatchValues(batch), maxConcurrent)

\* (mutant) the outcome of a failed GET is stored in the cache as well
GetCompleteCachesFailure(o, k, outcome) ==
    /\ fm[o].st = "running"
    /\ k \in 1..Len(fm[o].batch)
    /\ fm[o].batch[k].st = "pending"
    /\ LET u == fm[o].batch[k].url
           c == CacheAfterFetch(cache, u, IF outcome.ok
                                          THEN PageContent(u, outcome.body, clock)
                                          ELSE ErrorRecord(u))
       IN  /\ cache' = c
           /\ fm' = [fm EXCEPT ![o] = CallAfterGet(c, fm[o], k, outcome, clock)]
    /\ lastOp' = "get"
    /\ UNCHANGED <<conversationHistory, urls, search, chat, clock, nChats>>

\* A GET issued by caller o completes
GetComplete(o, k, outcome) ==
    /\ fm[o].st = "running"
    /\ k \in 1..Len(fm[o].batch)
    /\ fm[o].batch[k].st = "pending"
    /\ LET u == fm[o].batch[k].url
           c == IF outcome.ok
                THEN CacheAfterFetch(cache, u, PageContent(u, outcome.body, clock))
                ELSE cache
       IN  /\ cache' = c
           /\ fm' = [fm EXCEPT ![o] = CallAfterGet(c, fm[o], k, outcome, clock)]
    /\ lastOp' = "get"
    /\ UNCHANGED <<conversationHistory, urls, search, chat, clock, nChats>>

\* fetchPageContent(u) called directly
FetchOne(o, u) ==
    /\ fm[o].st \in {"idle", "resolved", "rejected"}
    /\ fm' = [fm EXCEPT ![o] = fetchPageContent(cache, u)]
    /\ lastOp' = "fetchOne"
    /\ UNCHANGED <<conversationHistory, urls, search, cache, chat, clock, nChats>>

\* fetchMultiplePages(urlList) called directly
FetchMany(o, urlList) ==
    /\ fm[o].st \in {"idle", "resolved", "rejected"}
    /\ fm' = [fm EXCEPT ![o] = fetchMultiplePages(cache, urlList)]
    /\ lastOp' = "fetchMany"
    /\ UNCHANGED <<conversationHistory, urls, search, cache, chat, clock, nChats>>

\* time passes
Tick ==
    /\ clock < MaxClock
    /\ clock' = clock + 1
    /\ lastOp' = "tick"
    /\ UNCHANGED <<conversationHistory, urls, search, cache, chat, fm, nChats>>

-----------------------------------------------------------------------------
(* Messages of the chat protocol *)

\* message contents are pairs <<kind, number>>
SystemContent == <<"system", 0>>
UserContent(n) == <<"user", n>>
AnswerContent(n) == <<"answer", n>>
Undefined == <<"undefined", 0>>
\* chat: errorMessage (line 258)
TroubleMessage == <<"trouble processing", 0>>
\* chat: maxIterationMessage (line 263)
MaxIterationMessage == <<"taking too long", 0>>

Msg(role, content, tool_calls, tool_call_id, name) ==
    [role |-> role, content |-> content, tool_calls |-> tool_calls,
     tool_call_id |-> tool_call_id, name |-> name]

SystemMsg == Msg("system", SystemContent, <<>>, 0, "none")
UserMsg(content) == Msg("user", content, <<>>, 0, "none")
AssistantMsg(content, tool_calls) == Msg("assistant", content, tool_calls, 0, "none")
\* (mutant) the tool message is built without its tool_call_id
ToolMsgWithoutId(id, name, content) == Msg("tool", content, <<>>, 0, name)
ToolMsg(id, name, content) == Msg("tool", content, <<>>, id, name)

\* the arguments of a tool call travel JSON-encoded; an encoded text is
\* well formed or not, and a well-formed one decodes to the object it encodes
Args(hasQuery, query, limit, hasUrls, urlList) ==
    [hasQuery |-> hasQuery, query |-> query, limit |-> limit,
     hasUrls |-> hasUrls, urls |-> urlList]

NoArgs == Args(FALSE, <<>>, 0, FALSE, <<>>)
Encoded(args) == [wellFormed |-> TRUE, val |-> args]
Garbled == [wellFormed |-> FALSE, val |-> NoArgs]

\* (mutant) malformed text decodes to an empty argument object
JSONParseLenient(text) == [ok |-> TRUE, val |-> text.val]

\* JSON.parse(toolCall.function.arguments) (line 220): throws on malformed text
JSONParse(text) == [ok |-> text.wellFormed, val |-> text.val]

ToolCall(id, name, arguments) == [id |-> id, name |-> name, arguments |-> arguments]

\* tool results and their serialisation by JSON.stringify (line 229):
\* the kind of payload and the number of its elements
ToolResult(kind, items) == [ready |-> TRUE, kind |-> kind, items |-> items]
\* (mutant) a failed dispatch answers with an empty list of URLs
ErrorPayloadAsEmptyList == ToolResult("urls", <<>>)
\* return { error: error.message } (line 98)
ErrorPayload == ToolResult("error", <<>>)
NoResult == [ready |-> FALSE, kind |-> "none", items |-> <<>>]
Stringify(result) == <<result.kind, Len(result.items)>>

-----------------------------------------------------------------------------
(* RAGChatbot.executeToolCall (lines 68-101) up to its first await *)

\* (mutant) the list of URLs is passed on uncut
limitedUrlsUncut(args) == args.urls

\* const limitedUrls = args.urls.slice(0, 3) (line 85)
limitedUrls(args) == JsSlice(args.urls, 0, FetchLimit)

executeToolCall(toolName, args, index, c) ==
    CASE toolName = "search_website_urls" ->
            IF ~args.hasQuery
            THEN [result |-> ErrorPayload, call |-> IdleCall]
            ELSE [result |-> ToolResult("urls",
                                searchUrls(index, args.query,
                                           IF args.limit = 0 THEN DefaultLimit
                                           ELSE args.limit)),
                  call |-> IdleCall]
      [] toolName = "fetch_webpage_content" ->
            IF ~args.hasUrls
            THEN [result |-> ErrorPayload, call |-> IdleCall]
            ELSE LET call == fetchMultiplePages(c, limitedUrls(args))
                 IN  IF call.st = "resolved"
                     THEN [result |-> ToolResult("pages", call.results),
                           call |-> IdleCall]
                     ELSE [result |-> NoResult, call |-> call]
      [] OTHER -> [result |-> ErrorPayload, call |-> IdleCall]

\* executeToolCall('search_website_urls', {query, limit}) called with a
\* decoded argument object
DispatchSearch(query, limit) ==
    /\ LET ex == executeToolCall("search_website_urls",
                                 Args(TRUE, query, limit, FALSE, <<>>), urls, cache)
       IN  search' = [via |-> "dispatch", query |-> query, limit |-> limit,
                      results |-> ex.result.items,
                      error |-> ex.result.kind = "error"]
    /\ lastOp' = "dispatchSearch"
    /\ UNCHANGED <<conversationHistory, urls, cache, chat, fm, clock, nChats>>

-----------------------------------------------------------------------------
(* RAGChatbot.callOpenRouterAPI (lines 106-170) *)

\* the outcome of one axios.post
HttpOutcome(err, status, valid, response) ==
    [err |-> err, status |-> status, valid |-> valid, response |-> response]

\* axios rejects on a transport error and on a status validateStatus refuses
AxiosThrows(o) == o.err # "none" \/ ~(o.status >= 200 /\ o.status < 500)

\* the try block throws (lines 111-142)
AttemptFails(o) == AxiosThrows(o) \/ o.status # 200 \/ ~o.valid

\* (mutant) the last attempt is recognised one attempt late
IsLastAttemptLate(attempt) == attempt = retries + 1

\* const isLastAttempt = attempt === retries (line 148)
IsLastAttempt(attempt) == attempt = retries

\* (mutant) the exponent is the attempt number itself
WaitTimeFromAttempt(attempt) == Min(BackoffBase * Pow2(attempt), BackoffCap)

\* const waitTime = Math.min(1000 * Math.pow(2, attempt - 1), 5000) (line 165)
WaitTime(attempt) == Min(BackoffBase * Pow2(attempt - 1), BackoffCap)

-----------------------------------------------------------------------------
(* RAGChatbot.chat (lines 175-266) *)

IdleChat ==
    [pc |-> "idle", userMessage |-> Undefined, messages |-> <<>>,
     currentIteration |-> 0, apiCalls |-> 0, api |-> "none", attempt |-> 0,
     waits |-> <<>>,
     toolCalls |-> <<>>, toolIdx |-> 0, toolResult |-> NoResult,
     result |-> Undefined]

\* (mutant) the stored history is left out of the outgoing sequence
BuildMessagesWithoutHistory(history, userMessage) ==
    <<SystemMsg, UserMsg(userMessage)>>

\* const messages = [system, ...this.conversationHistory, user] (lines 179-197)
BuildMessages(history, userMessage) ==
    <<SystemMsg>> \o history \o <<UserMsg(userMessage)>>

\* (mutant) the loop test written with <=
LoopContinuesInclusive(currentIteration) == currentIteration <= maxIterations

\* while (currentIteration < maxIterations) (line 202)
LoopContinues(currentIteration) == currentIteration < maxIterations

\* (mutant) the catch block rethrows instead of returning
CatchRethrows(c) == [c EXCEPT !.pc = "raised"]

\* the catch block of the loop: return errorMessage (lines 254-260)
CatchInChat(c) == [c EXCEPT !.pc = "done", !.result = TroubleMessage]

\* the top of the while loop: another call of callOpenRouterAPI, or the
\* return after the loop (lines 202-207, 263-265)
LoopTop(c) ==
    IF LoopContinues(c.currentIteration)
    THEN [c EXCEPT !.pc = "http", !.currentIteration = @ + 1, !.apiCalls = @ + 1,
                   !.api = "pending", !.attempt = 1, !.waits = <<>>]
    ELSE [c EXCEPT !.pc = "done", !.result = MaxIterationMessage]

\* (mutant) the history is cut from the front: slice(0, 10)
UpdateHistoryKeepsOldest(history, userMessage, finalResponse) ==
    LET pushed == history \o <<UserMsg(userMessage), AssistantMsg(finalResponse, <<>>)>>
    IN  IF Len(pushed) > HistoryLimit THEN JsSlice(pushed, 0, HistoryLimit) ELSE pushed

\* (mutant) the exchange is assigned to the history instead of pushed
UpdateHistoryReplaces(history, userMessage, finalResponse) ==
    <<UserMsg(userMessage), AssistantMsg(finalResponse, <<>>)>>

\* conversationHistory.push(user, assistant), then slice(-10) (lines 242-250)
UpdateHistory(history, userMessage, finalResponse) ==
    LET pushed == history \o <<UserMsg(userMessage), AssistantMsg(finalResponse, <<>>)>>
    IN  IF Len(pushed) > HistoryLimit THEN LastN(pushed, HistoryLimit) ELSE pushed

\* lines 219-222: decode the arguments of tool call toolIdx and start it
BeginToolCall(c, index, cch) ==
    LET toolCall == c.toolCalls[c.toolIdx]
        parsed == JSONParse(toolCall.arguments)
    IN  IF ~parsed.ok
        THEN [chat |-> CatchInChat(c), call |-> IdleCall]
        ELSE LET ex == executeToolCall(toolCall.name, parsed.val, index, cch)
             IN  [chat |-> [c EXCEPT !.pc = "tool", !.toolResult = ex.result],
                  call |-> ex.call]

\* (mutant) the tool message is inserted right after the assistant message
AfterToolResultReversed(c, toolResult, index, cch) ==
    LET toolCall == c.toolCalls[c.toolIdx]
        at == Len(c.messages) - (c.toolIdx - 1)
        pushed == [c EXCEPT !.messages =
                       SubSeq(@, 1, at)
                       \o <<ToolMsg(toolCall.id, toolCall.name, Stringify(toolResult))>>
                       \o SubSeq(@, at + 1, Len(@)),
                            !.toolResult = NoResult]
    IN  IF c.toolIdx < Len(c.toolCalls)
        THEN BeginToolCall([pushed EXCEPT !.toolIdx = @ + 1], index, cch)
        ELSE [chat |-> LoopTop(pushed), call |-> IdleCall]

\* lines 225-234: append the tool message, then the next tool call or the
\* next iteration
AfterToolResult(c, toolResult, index, cch) ==
    LET toolCall == c.toolCalls[c.toolIdx]
        pushed == [c EXCEPT !.messages =
                       Append(@, ToolMsg(toolCall.id, toolCall.name, Stringify(toolResult))),
                            !.toolResult = NoResult]
    IN  IF c.toolIdx < Len(c.toolCalls)
        THEN BeginToolCall([pushed EXCEPT !.toolIdx = @ + 1], index, cch)
        ELSE [chat |-> LoopTop(pushed), call |-> IdleCall]

\* (mutant) the exchange is recorded before the tool_calls test
HistoryAfterEager(history, userMessage, response) ==
    IF response.hasMessage
    THEN history \o <<UserMsg(userMessage), AssistantMsg(response.content, <<>>)>>
    ELSE history

\* (mutant) the user message is recorded as soon as any response arrives
HistoryAfterKeepsUser(history, userMessage, response) ==
    IF response.hasMessage /\ Len(response.tool_calls) = 0
    THEN history \o <<UserMsg(userMessage), AssistantMsg(response.content, <<>>)>>
    ELSE Append(history, UserMsg(userMessage))

\* what handling a response does to this.conversationHistory: only the
\* final-answer path (lines 238-250) touches it
HistoryAfter(history, userMessage, response) ==
    IF response.hasMessage /\ Len(response.tool_calls) = 0
    THEN UpdateHistory(history, userMessage, response.content)
    ELSE history

\* lines 208-252: a response of the remote model arrived
AfterResponse(c, response, index, cch) ==
    IF ~response.hasMessage
    THEN [chat |-> CatchInChat(c), call |-> IdleCall]
    ELSE LET pushed == [c EXCEPT !.messages =
                           Append(@, AssistantMsg(response.content, response.tool_calls))]
         IN  IF Len(response.tool_calls) > 0
             THEN BeginToolCall([pushed EXCEPT !.toolCalls = response.tool_calls,
                                               !.toolIdx = 1], index, cch)
             ELSE [chat |-> [pushed EXCEPT !.pc = "done", !.result = response.content],
                   call |-> IdleCall]

\* chat(userMessage) is called: build the messages and issue the first request
StartChat(p, limit) ==
    /\ chat[p].pc \in {"idle", "done"}
    /\ nChats < limit
    /\ nChats' = nChats + 1
    /\ chat' = [chat EXCEPT ![p] =
                  LoopTop([IdleChat EXCEPT
                             !.userMessage = UserContent(nChats + 1),
                             !.messages = BuildMessages(conversationHistory,
                                                        UserContent(nChats + 1))])]
    /\ lastOp' = "chat"
    /\ UNCHANGED <<conversationHistory, urls, search, cache, fm, clock>>

\* an axios.post of callOpenRouterAPI completes
HttpComplete(p, o) ==
    /\ chat[p].pc = "http"
    /\ IF AttemptFails(o)
       THEN /\ chat' = [chat EXCEPT ![p] =
                          IF IsLastAttempt(chat[p].attempt)
                          THEN CatchInChat([chat[p] EXCEPT !.api = "rejected"])
                          ELSE [chat[p] EXCEPT !.pc = "backoff",
                                               !.waits = Append(@, WaitTime(chat[p].attempt))]]
            /\ UNCHANGED <<conversationHistory, fm>>
       ELSE LET r == AfterResponse([chat[p] EXCEPT !.api = "fulfilled"], o.response,
                                   urls, cache)
            IN  /\ chat' = [chat EXCEPT ![p] = r.chat]
                /\ fm' = [fm EXCEPT ![p] = r.call]
                /\ conversationHistory' =
                       HistoryAfter(conversationHistory, chat[p].userMessage, o.response)
    /\ lastOp' = "http"
    /\ UNCHANGED <<urls, search, cache, clock, nChats>>

\* the setTimeout of the backoff fires: the next attempt is posted
BackoffDone(p) ==
    /\ chat[p].pc = "backoff"
    /\ chat' = [chat EXCEPT ![p] = [@ EXCEPT !.pc = "http", !.attempt = @ + 1]]
    /\ lastOp' = "backoff"
    /\ UNCHANGED <<conversationHistory, urls, search, cache, fm, clock, nChats>>

\* the await of executeToolCall resumes with the tool's result
ToolReturn(p) ==
    /\ chat[p].pc = "tool"
    /\ \/ chat[p].toolResult.ready
       \/ fm[p].st = "resolved"
    /\ LET toolResult == IF chat[p].toolResult.ready THEN chat[p].toolResult
                         ELSE ToolResult("pages", fm[p].results)
           r == AfterToolResult(chat[p], toolResult, urls, cache)
       IN  /\ chat' = [chat EXCEPT ![p] = r.chat]
           /\ fm' = [fm EXCEPT ![p] = r.call]
    /\ lastOp' = "tool"
    /\ UNCHANGED <<conversationHistory, urls, search, cache, clock, nChats>>

\* (mutant) the reset assigns a local and leaves the stored history
ResetKeepsHistory ==
    /\ conversationHistory' = conversationHistory
    /\ lastOp' = "reset"
    /\ UNCHANGED <<urls, search, cache, chat, fm, clock, nChats>>

\* (mutant) the reset also clears the scraper's cache
ResetClearsCache ==
    /\ conversationHistory' = <<>>
    /\ cache' = EmptyCache
    /\ lastOp' = "reset"
    /\ UNCHANGED <<urls, search, chat, fm, clock, nChats>>

\* RAGChatbot.resetConversation (lines 271-274)
ResetConversation ==
    /\ conversationHistory' = <<>>
    /\ lastOp' = "reset"
    /\ UNCHANGED <<urls, search, cache, chat, fm, clock, nChats>>

-----------------------------------------------------------------------------
(* What the environment may answer *)

TransportFailures ==
    { HttpOutcome("ECONNABORTED", 0, FALSE, <<>>),
      HttpOutcome("none", 500, FALSE, <<>>),
      HttpOutcome("none", 429, TRUE, <<>>),
      HttpOutcome("none", 200, FALSE, <<>>) }

Response(hasMessage, content, tool_calls) ==
    [hasMessage |-> hasMessage, content |-> content, tool_calls |-> tool_calls]

SearchCall(id) ==
    ToolCall(id, "search_website_urls", Encoded(Args(TRUE, <<"S","s","l">>, 0, FALSE, <<>>)))
FetchCall(id) ==
    ToolCall(id, "fetch_webpage_content", Encoded(Args(FALSE, <<>>, 0, TRUE, <<"U1">>)))
UnknownCall(id) == ToolCall(id, "send_email", Encoded(NoArgs))
GarbledCall(id) == ToolCall(id, "search_website_urls", Garbled)

\* a fetch_webpage_content invocation with the given list of URLs
FetchCallOf(id, urlList) ==
    ToolCall(id, "fetch_webpage_content", Encoded(Args(FALSE, <<>>, 0, TRUE, urlList)))
\* a search_website_urls invocation without its query: searchUrls throws a
\* TypeError at query.toLowerCase()
BadSearchCall(id) == ToolCall(id, "search_website_urls", Encoded(NoArgs))

\* the responses offered in iteration it of turn n
ModelResponses(it, n) ==
    { Response(TRUE, AnswerContent(n), <<>>),
      Response(TRUE, Undefined, <<>>),
      Response(FALSE, Undefined, <<>>),
      Response(TRUE, Undefined, <<SearchCall(1)>>),
      Response(TRUE, Undefined, <<SearchCall(1), GarbledCall(2)>>) }
    \cup (IF it <= VariedIterations
          THEN { Response(TRUE, Undefined, <<FetchCall(1), UnknownCall(2)>>) }
          ELSE {})

HttpOutcomes(it, n) ==
    TransportFailures
    \cup { HttpOutcome("none", 200, TRUE, r) : r \in ModelResponses(it, n) }

-----------------------------------------------------------------------------
(* Specifications *)

Init ==
    /\ conversationHistory = <<>>
    /\ urls = SiteUrls
    /\ cache = EmptyCache
    /\ chat = [p \in Procs |-> IdleChat]
    /\ fm = [o \in Owners |-> IdleCall]
    /\ clock = 0
    /\ nChats = 0
    /\ search = NoSearch
    /\ lastOp = "init"

\* one chat call at a time, every response of the remote model
Next ==
    \/ \E p \in Solo : StartChat(p, MaxChats)
    \/ \E p \in Solo : \E o \in HttpOutcomes(chat[p].currentIteration, nChats) :
          HttpComplete(p, o)
    \/ \E p \in Solo : BackoffDone(p)
    \/ \E p \in Solo : ToolReturn(p)
    \/ \E p \in Solo : \E k \in 1..maxConcurrent : \E o \in GetOutcomes :
          GetComplete(p, k, o)
    \/ ResetConversation

Spec == Init /\ [][Next]_vars

\* many turns of one chat call at a time, few kinds of response
HistOutcomes(n) ==
    { HttpOutcome("ECONNABORTED", 0, FALSE, <<>>),
      HttpOutcome("none", 200, TRUE, Response(TRUE, AnswerContent(n), <<>>)),
      HttpOutcome("none", 200, TRUE, Response(TRUE, Undefined, <<SearchCall(1)>>)) }

NextHist ==
    \/ \E p \in Solo : StartChat(p, MaxTurns)
    \/ \E p \in Solo : \E o \in HistOutcomes(nChats) : HttpComplete(p, o)
    \/ \E p \in Solo : BackoffDone(p)
    \/ \E p \in Solo : ToolReturn(p)
    \/ ResetConversation

SpecHist == Init /\ [][NextHist]_vars

\* one chat call at a time whose responses request tool invocations: lists
\* of 0 to 5 URLs to fetch, unknown tools, invocations that fail
DispatchLists ==
    { <<>>,
      <<"U1">>,
      <<"U1", "U2", "U3", "U4">>,
      <<"U4", "U3", "U2", "U1", "U1">> }

ToolResponses(it, n) ==
    { Response(TRUE, AnswerContent(n), <<>>),
      Response(TRUE, Undefined, <<UnknownCall(1)>>) }
    \cup (IF it <= VariedIterations
          THEN { Response(TRUE, Undefined, <<FetchCallOf(1, l)>>) : l \in DispatchLists }
               \cup { Response(TRUE, Undefined,
                               <<UnknownCall(1), FetchCallOf(2, <<"U2", "U1">>),
                                 BadSearchCall(3)>>),
                      Response(TRUE, Undefined, <<BadSearchCall(1), GarbledCall(2)>>),
                      Response(TRUE, Undefined,
                               <<GarbledCall(1), FetchCallOf(2, <<"U1">>)>>) }
          ELSE {})

ToolOutcomes(it, n) == { HttpOutcome("none", 200, TRUE, r) : r \in ToolResponses(it, n) }

NextTool ==
    \/ \E p \in Solo : StartChat(p, MaxToolChats)
    \/ \E p \in Solo : \E o \in ToolOutcomes(chat[p].currentIteration, nChats) :
          HttpComplete(p, o)
    \/ \E p \in Solo : ToolReturn(p)
    \/ \E p \in Solo : \E k \in 1..maxConcurrent : \E o \in GetOutcomes :
          GetComplete(p, k, o)

SpecTool == Init /\ [][NextTool]_vars

\* the URL index alone: searches over two indexes, asked directly and
\* through the tool dispatch
SearchIndexes == {SiteUrls, WordpressUrls}

Queries ==
    { <<"w","o","r","d","p","r","e","s","s"," ","h","o","s","t","i","n","g">>,
      <<"W","o","r","d","P","r","e","s","s"," ","H","o","s","t","i","n","g">>,
      <<"h","o","s","t","i","n","g">>,
      <<"s","s","l">>,
      <<"B","u","y"," ","S","S","L">>,
      <<"b","l","o","g"," ","t","i","p","s">>,
      <<"h","o","w"," ","t","o"," ","w","p">>,
      <<"w","p">>,
      <<"h","o","s","t","i","n","g"," ","h","o","s","t","i","n","g"," ","s","s","l">>,
      <<"e","m","a","i","l">>,
      <<>> }

Limits == 0..MaxLimit

InitSearch ==
    /\ conversationHistory = <<>>
    /\ urls \in SearchIndexes
    /\ cache = EmptyCache
    /\ chat = [p \in Procs |-> IdleChat]
    /\ fm = [o \in Owners |-> IdleCall]
    /\ clock = 0
    /\ nChats = 0
    /\ search = NoSearch
    /\ lastOp = "init"

NextSearch ==
    \/ \E q \in Queries : \E l \in Limits : SearchUrls(q, l)
    \/ \E q \in Queries : \E l \in Limits : DispatchSearch(q, l)

SpecSearch == InitSearch /\ [][NextSearch]_vars

\* two chat calls at a time (two requests to /api/chat being served) and
\* resets between any two of their steps; the answer to turn n is answer n,
\* and the first MaxChats turns may begin with a tool request
Pair == {1, 2}

OverlapOutcomes(it, n) ==
    { HttpOutcome("none", 200, TRUE, Response(TRUE, AnswerContent(n), <<>>)) }
    \cup (IF it = 1 /\ n <= MaxChats
          THEN { HttpOutcome("none", 200, TRUE, Response(TRUE, Undefined, <<SearchCall(1)>>)) }
          ELSE {})

NextOverlap ==
    \/ \E p \in Pair : StartChat(p, MaxOverlapTurns)
    \/ \E p \in Pair :
          \E o \in OverlapOutcomes(chat[p].currentIteration, chat[p].userMessage[2]) :
              HttpComplete(p, o)
    \/ \E p \in Pair : ToolReturn(p)
    \/ ResetConversation

SpecOverlap == Init /\ [][NextOverlap]_vars

\* one chat call at a time under the scheduling the runtime guarantees:
\* every axios request completes or times out (60 s for the model, 10 s
\* for a page), every setTimeout fires and every settled await resumes
LiveOutcomes(it, n) ==
    { HttpOutcome("ECONNABORTED", 0, FALSE, <<>>),
      HttpOutcome("none", 200, TRUE, Response(TRUE, AnswerContent(n), <<>>)),
      HttpOutcome("none", 200, TRUE, Response(TRUE, Undefined, <<UnknownCall(1)>>)) }
    \cup (IF it <= VariedIterations
          THEN { HttpOutcome("none", 200, TRUE,
                             Response(TRUE, Undefined,
                                      <<FetchCallOf(1, <<"U1", "U2">>), GarbledCall(2)>>)),
                 HttpOutcome("none", 200, TRUE,
                             Response(TRUE, Undefined, <<FetchCallOf(1, <<"U2", "U3">>)>>)) }
          ELSE {})

HttpStep(p) == \E o \in LiveOutcomes(chat[p].currentIteration, nChats) : HttpComplete(p, o)
GetStep(p) == \E k \in 1..maxConcurrent : \E o \in GetOutcomes : GetComplete(p, k, o)

NextLive ==
    \/ \E p \in Solo : StartChat(p, MaxToolChats)
    \/ \E p \in Solo : HttpStep(p)
    \/ \E p \in Solo : BackoffDone(p)
    \/ \E p \in Solo : ToolReturn(p)
    \/ \E p \in Solo : GetStep(p)

Fairness ==
    \A p \in Solo :
        /\ WF_vars(HttpStep(p))
        /\ WF_vars(BackoffDone(p))
        /\ WF_vars(ToolReturn(p))
        /\ WF_vars(GetStep(p))

SpecLive == Init /\ [][NextLive]_vars /\ Fairness

\* the scraper alone: overlapping fetchPageContent calls
FetchUrls == {"U1", "U2"}

NextFetch ==
    \/ \E o \in Fetchers : \E u \in FetchUrls : FetchOne(o, u)
    \/ \E o \in Fetchers : \E k \in 1..maxConcurrent : \E out \in GetOutcomes :
          GetComplete(o, k, out)
    \/ Tick

SpecFetch == Init /\ [][NextFetch]_vars

\* the scraper alone: one caller of fetchMultiplePages, overlapped by one
\* caller of fetchPageContent
Batcher == {NumProcs + 1}
Single == {NumProcs + 2}

ManyLists ==
    { <<>>,
      <<"U1">>,
      <<"U2", "U2", "U1">>,
      <<"U1", "U2", "U3", "U4">>,
      <<"U1", "U2", "U3", "U4", "U1", "U2", "U3">> }

NextMany ==
    \/ \E o \in Batcher : \E l \in ManyLists : FetchMany(o, l)
    \/ \E o \in Single : \E u \in FetchUrls : FetchOne(o, u)
    \/ \E o \in Batcher \cup Single : \E k \in 1..maxConcurrent :
          \E out \in GetOutcomes : GetComplete(o, k, out)

SpecMany == Init /\ [][NextMany]_vars

-----------------------------------------------------------------------------
(* Vocabulary of the properties *)

InFlight(p) == chat[p].pc \in {"http", "backoff", "tool"}
Returned(p) == chat[p].pc = "done"

RequestsTools(m) == m.role = "assistant" /\ Len(m.tool_calls) > 0
IsPlainAnswer(m) == m.role = "assistant" /\ Len(m.tool_calls) = 0

\* the position of the turn's own user message in its outgoing sequence
TurnStart(c) ==
    CHOOSE i \in 1..Len(c.messages) : c.messages[i] = UserMsg(c.userMessage)

\* the stored history as the call found it: what it copied between the
\* system prompt and its user message
HistoryAtStart(c) == SubSeq(c.messages, 2, TurnStart(c) - 1)

ToolRounds(c) ==
    Cardinality({i \in 1..Len(c.messages) : RequestsTools(c.messages[i])})

\* the assistant message at position i is followed by exactly one tool
\* message per invocation, in order, each with the invocation's id
Answered(msgs, i) ==
    LET n == Len(msgs[i].tool_calls)
    IN  /\ i + n <= Len(msgs)
        /\ \A k \in 1..n :
              /\ msgs[i + k].role = "tool"
              /\ msgs[i + k].tool_call_id = msgs[i].tool_calls[k].id
        /\ i + n < Len(msgs) => msgs[i + n + 1].role # "tool"

LastMessage(c) == c.messages[Len(c.messages)]

\* every tool request of the turn, the last one included, was dispatched
AllRoundsDispatched(c) ==
    \A i \in 1..Len(c.messages) : RequestsTools(c.messages[i]) => Answered(c.messages, i)

EndedWithAnswer(c) ==
    /\ c.pc = "done"
    /\ IsPlainAnswer(LastMessage(c))
    /\ c.result = LastMessage(c).content

BackoffSchedule == <<1000, 2000>>

-----------------------------------------------------------------------------
(* Properties *)

\* C1: whenever a request to the remote model is in flight, every assistant
\* message of the outgoing sequence that requested tool invocations is
\* followed by exactly one tool message per invocation, carrying its id.
C1_ToolCallsAnswered ==
    \A p \in Procs :
        chat[p].pc = "http" =>
            \A i \in 1..Len(chat[p].messages) :
                RequestsTools(chat[p].messages[i]) => Answered(chat[p].messages, i)

C1_Witness ==
    \E p \in Procs :
        /\ chat[p].pc = "http"
        /\ chat[p].currentIteration = 3
        /\ \E i \in 1..Len(chat[p].messages) : Len(chat[p].messages[i].tool_calls) = 2
        /\ \E i \in 1..Len(chat[p].messages) : Len(chat[p].messages[i].tool_calls) = 1

\* C2 (as stated): at most 10 calls of the remote model per chat call, and a
\* turn without a plain answer after the 10th call ends in ABORTED.
C2_Original ==
    \A p \in Procs :
        /\ chat[p].apiCalls <= 10
        /\ (Returned(p) /\ chat[p].apiCalls = 10 /\ ~EndedWithAnswer(chat[p]))
              => chat[p].result = MaxIterationMessage

\* C2 (amended): at most 10 calls of the remote model per chat call; after
\* the 10th call a turn without a plain answer ends in ABORTED when the 10th
\* response's tool invocations were all dispatched, and with the "trouble
\* processing" message when the 10th call failed or its response could not
\* be processed; there is no 11th call.
C2_AtMostTenCalls ==
    \A p \in Procs :
        /\ chat[p].apiCalls <= 10
        /\ chat[p].apiCalls = chat[p].currentIteration
        /\ (Returned(p) /\ chat[p].apiCalls = 10 /\ ~EndedWithAnswer(chat[p]))
              => IF chat[p].api = "fulfilled" /\ ToolRounds(chat[p]) = 10
                    /\ AllRoundsDispatched(chat[p])
                 THEN chat[p].result = MaxIterationMessage
                 ELSE chat[p].result = TroubleMessage

C2_Witness ==
    \E p \in Procs :
        /\ Returned(p)
        /\ chat[p].apiCalls = 10
        /\ chat[p].result = MaxIterationMessage

\* C3 (as stated): a chat call in which 10 responses in a row requested tool
\* invocations returns the "taking too long" message and leaves the stored
\* history as the call found it.
C3_Original ==
    \A p \in Procs :
        (Returned(p) /\ ToolRounds(chat[p]) = 10)
            => /\ chat[p].result = MaxIterationMessage
               /\ conversationHistory \in {HistoryAtStart(chat[p]), <<>>}

\* C3 (amended): a chat call in which 10 responses in a row requested tool
\* invocations, all of which were dispatched, returns the "taking too long"
\* message; whether or not the 10th round was dispatched, the stored history
\* is what the call found (or empty, if a reset ran meanwhile).
C3_TooLongKeepsHistory ==
    \A p \in Procs :
        (Returned(p) /\ ToolRounds(chat[p]) = 10)
            => /\ AllRoundsDispatched(chat[p]) => chat[p].result = MaxIterationMessage
               /\ ~AllRoundsDispatched(chat[p]) => chat[p].result = TroubleMessage
               /\ conversationHistory \in {HistoryAtStart(chat[p]), <<>>}

C3_Witness ==
    \E p \in Procs :
        /\ Returned(p)
        /\ ToolRounds(chat[p]) = 10
        /\ chat[p].result = MaxIterationMessage
        /\ conversationHistory = HistoryAtStart(chat[p])
        /\ Len(conversationHistory) = 2

\* C4: within one callOpenRouterAPI invocation the attempts are numbered
\* 1..3, the waits made so far are 1000 ms then 2000 ms (WaitTime of the
\* failed attempt), the call fails only at attempt 3 after exactly those two
\* waits, and once an attempt has succeeded no attempt or wait follows.
C4_RetrySchedule ==
    /\ [](\A p \in Procs :
            /\ chat[p].api \in {"pending", "fulfilled", "rejected"} =>
                  /\ chat[p].attempt \in 1..3
                  /\ \A k \in 1..Len(chat[p].waits) :
                        chat[p].waits[k] = Min(1000 * Pow2(k - 1), 5000)
            /\ chat[p].pc = "http" =>
                  chat[p].waits = SubSeq(BackoffSchedule, 1, chat[p].attempt - 1)
            /\ chat[p].pc = "backoff" =>
                  /\ chat[p].attempt < 3
                  /\ chat[p].waits = SubSeq(BackoffSchedule, 1, chat[p].attempt)
            /\ chat[p].api = "rejected" =>
                  chat[p].attempt = 3 /\ chat[p].waits = BackoffSchedule
            /\ chat[p].api = "fulfilled" =>
                  chat[p].waits = SubSeq(BackoffSchedule, 1, chat[p].attempt - 1))
    /\ [][\A p \in Procs :
            (chat[p].api \in {"fulfilled", "rejected"}
               /\ nChats' = nChats
               /\ chat'[p].apiCalls = chat[p].apiCalls)
            => /\ chat'[p].attempt = chat[p].attempt
               /\ chat'[p].waits = chat[p].waits
               /\ chat'[p].api = chat[p].api]_vars

C4_Witness ==
    \E p \in Procs :
        /\ Returned(p)
        /\ chat[p].api = "rejected"
        /\ chat[p].attempt = 3
        /\ chat[p].waits = <<1000, 2000>>

\* C5: a chat call that ends because the remote model call failed, at the
\* first model call or after tools were dispatched, does not touch the
\* stored history: the step that ends it leaves the history unchanged, and
\* the history then is what the call found (or empty, if a reset ran
\* meanwhile).
C5_FailureKeepsHistory ==
    /\ [](\A p \in Procs :
            (Returned(p) /\ chat[p].api = "rejected")
            => /\ chat[p].result = TroubleMessage
               /\ conversationHistory \in {HistoryAtStart(chat[p]), <<>>})
    /\ [][\A p \in Procs :
            (chat'[p] # chat[p] /\ chat'[p].api = "rejected")
            => conversationHistory' = conversationHistory]_vars

C5_Witness ==
    \E p \in Procs :
        /\ Returned(p)
        /\ chat[p].api = "rejected"
        /\ chat[p].apiCalls >= 2
        /\ ToolRounds(chat[p]) >= 1
        /\ Len(conversationHistory) = 2
        /\ conversationHistory = HistoryAtStart(chat[p])

\* C6: a chat call never raises: it ends by returning the content of the
\* model's plain answer, the "trouble processing" message or the "taking
\* too long" message, whatever the remote model and the tools do.
C6_NeverRaises ==
    \A p \in Procs :
        /\ chat[p].pc \in {"idle", "http", "backoff", "tool", "done"}
        /\ Returned(p) =>
              \/ EndedWithAnswer(chat[p])
              \/ chat[p].result = TroubleMessage /\ ~IsPlainAnswer(LastMessage(chat[p]))
              \/ chat[p].result = MaxIterationMessage /\ chat[p].currentIteration = 10

C6_Witness ==
    \E p \in Procs :
        /\ Returned(p)
        /\ chat[p].result = TroubleMessage
        /\ chat[p].api = "fulfilled"
        /\ ToolRounds(chat[p]) = 2
        /\ ~AllRoundsDispatched(chat[p])

\* C7: the stored history never holds more than 10 entries, and a turn that
\* ends with a plain answer leaves the last 10 entries of the previous
\* history followed by the turn's user message and answer.
C7_HistoryWindow ==
    /\ [](Len(conversationHistory) <= 10)
    /\ [][\A p \in Procs :
            (chat'[p] # chat[p] /\ EndedWithAnswer(chat'[p]))
            => LET s == conversationHistory
                          \o << [role |-> "user", content |-> chat[p].userMessage,
                                 tool_calls |-> <<>>, tool_call_id |-> 0, name |-> "none"],
                                [role |-> "assistant", content |-> chat'[p].result,
                                 tool_calls |-> <<>>, tool_call_id |-> 0, name |-> "none"] >>
               IN  conversationHistory' = SubSeq(s, Max(1, Len(s) - 9), Len(s))]_vars

C7_Witness ==
    /\ Len(conversationHistory) = 10
    /\ conversationHistory[1].content = <<"user", 2>>
    /\ conversationHistory[10].content = <<"answer", 6>>

\* C8: a chat call that starts right after a resetConversation that ran
\* with no chat call in flight sends, on its first call of the remote
\* model, exactly the system prompt and its own user message.
C8_FreshAfterReset ==
    [][\A p \in Procs :
          (/\ lastOp = "reset"
           /\ \A q \in Procs : ~InFlight(q)
           /\ lastOp' = "chat"
           /\ chat'[p] # chat[p])
          => /\ chat'[p].pc = "http"
             /\ chat'[p].apiCalls = 1
             /\ Len(chat'[p].messages) = 2
             /\ chat'[p].messages[1].role = "system"
             /\ chat'[p].messages[2].role = "user"
             /\ chat'[p].messages[2].content = chat'[p].userMessage]_vars

C8_Witness ==
    \E p \in Procs :
        /\ lastOp = "chat"
        /\ nChats = 2
        /\ chat[p].pc = "http"
        /\ chat[p].userMessage = <<"user", 2>>
        /\ Len(chat[p].messages) = 2
        /\ DOMAIN cache # {}

\* C9: resetConversation leaves the stored history empty, leaves the URL
\* index and the content cache as they were, and a second reset right
\* after the first changes nothing.
C9_ResetClears ==
    /\ [][lastOp' = "reset"
            => /\ conversationHistory' = <<>>
               /\ urls' = urls
               /\ cache' = cache]_vars
    /\ [][(lastOp = "reset" /\ lastOp' = "reset")
            => UNCHANGED <<conversationHistory, urls, cache, chat, fm>>]_vars

C9_Witness ==
    /\ lastOp = "reset"
    /\ conversationHistory = <<>>
    /\ DOMAIN cache # {}
    /\ \E p \in Procs : EndedWithAnswer(chat[p])

\* C10 (as stated): once a fetchPageContent(url) call has completed
\* successfully, a later call for the same URL issues no network request and
\* returns a PageContent identical to the result of the completed call.
C10_Original ==
    [][\A o \in Owners : \A o2 \in Owners \ {o} :
          (/\ lastOp' = "fetchOne"
           /\ fm'[o] # fm[o]
           /\ fm[o2].kind = "one"
           /\ fm[o2].st = "resolved"
           /\ fm'[o].urls = fm[o2].urls)
          => /\ fm'[o].st = "resolved"
             /\ ~fm'[o].batch[1].net
             /\ fm'[o].results = fm[o2].results]_vars

\* C10 (amended): once a fetchPageContent(url) call has completed
\* successfully, a later call for the same URL issues no network request and
\* returns the PageContent the cache holds at that time; a successful call
\* leaves its own result in the cache, entries are never removed, and an
\* entry is replaced only by the completion of a GET for the same URL that
\* was already in flight.
C10_CacheHit ==
    /\ [][\A o \in Owners : \A o2 \in Owners \ {o} :
            (/\ lastOp' = "fetchOne"
             /\ fm'[o] # fm[o]
             /\ fm[o2].kind = "one"
             /\ fm[o2].st = "resolved"
             /\ fm'[o].urls = fm[o2].urls)
            => /\ fm'[o].st = "resolved"
               /\ ~fm'[o].batch[1].net
               /\ fm'[o].urls[1] \in DOMAIN cache
               /\ fm'[o].results = <<cache[fm'[o].urls[1]]>>
               /\ cache' = cache]_vars
    /\ [][\A o \in Owners :
            (fm[o].kind = "one" /\ fm[o].st = "running" /\ fm'[o].st = "resolved")
            => /\ fm'[o].urls[1] \in DOMAIN cache'
               /\ <<cache'[fm'[o].urls[1]]>> = fm'[o].results]_vars
    /\ [][\A u \in DOMAIN cache :
            /\ u \in DOMAIN cache'
            /\ cache'[u] # cache[u] =>
                  \E o \in Owners : \E k \in 1..Len(fm[o].batch) :
                      /\ fm[o].batch[k].url = u
                      /\ fm[o].batch[k].st = "pending"
                      /\ fm[o].batch[k].net
                      /\ fm'[o] # fm[o]]_vars

C10_Witness ==
    \E o \in Owners : \E o2 \in Owners \ {o} :
        /\ lastOp = "fetchOne"
        /\ fm[o].kind = "one" /\ fm[o].st = "resolved" /\ ~fm[o].batch[1].net
        /\ fm[o2].kind = "one" /\ fm[o2].st = "resolved" /\ fm[o2].batch[1].net
        /\ fm[o].urls = fm[o2].urls
        /\ fm[o].results = fm[o2].results
        /\ fm[o].results[1].fetchedAt < clock
        /\ Cardinality(DOMAIN cache) = 2

\* the entries of a caller's current batch whose GET is in flight
PendingEntries(call) == {k \in 1..Len(call.batch) : call.batch[k].st = "pending"}

IsPageOf(v, u) == v.ok /\ v.url = u /\ v.error = "none"
IsErrorOf(v, u) ==
    v = [url |-> u, ok |-> FALSE, content |-> 0, fetchedAt |-> 0, error |-> "Failed to fetch"]

\* C11: a fetchMultiplePages call never fails; while it runs, its results
\* cover exactly the batches already completed, and when it returns the
\* result sequence has the length of the input list and its i-th element is
\* the PageContent or the error record of the i-th input URL.
C11_SameLengthAndOrder ==
    \A o \in Owners :
        fm[o].kind = "many" =>
            /\ fm[o].st \in {"running", "resolved"}
            /\ fm[o].st = "running" => Len(fm[o].results) = fm[o].i
            /\ fm[o].st = "resolved" => Len(fm[o].results) = Len(fm[o].urls)
            /\ \A k \in 1..Len(fm[o].results) :
                  \/ IsPageOf(fm[o].results[k], fm[o].urls[k])
                  \/ IsErrorOf(fm[o].results[k], fm[o].urls[k])

C11_Witness ==
    \E o \in Owners :
        /\ fm[o].kind = "many"
        /\ fm[o].st = "resolved"
        /\ Len(fm[o].urls) = 7
        /\ IsErrorOf(fm[o].results[2], "U2")
        /\ IsPageOf(fm[o].results[3], "U3")
        /\ IsErrorOf(fm[o].results[5], "U1")
        /\ IsPageOf(fm[o].results[7], "U3")

\* C12: during a fetchMultiplePages call at most 3 of its page fetches are
\* in flight, the fetches in flight belong to one batch of at most 3
\* consecutive URLs, and a fetch of a later batch starts only in the step
\* in which the last fetch still in flight of the current batch completes.
C12_BoundedConcurrency ==
    /\ [](\A o \in Owners :
            fm[o].kind = "many" =>
                /\ Cardinality(PendingEntries(fm[o])) <= 3
                /\ Len(fm[o].batch) <= 3
                /\ fm[o].st = "running" =>
                      /\ fm[o].i % 3 = 0
                      /\ \A k \in 1..Len(fm[o].batch) :
                            fm[o].batch[k].url = fm[o].urls[fm[o].i + k])
    /\ [][\A o \in Owners :
            (/\ fm[o].kind = "many" /\ fm[o].st = "running"
             /\ lastOp' = "get"
             /\ fm'[o].i # fm[o].i)
            => /\ Cardinality(PendingEntries(fm[o])) = 1
               /\ fm'[o].i >= fm[o].i + 3
               /\ Len(fm'[o].results) >= fm[o].i + Len(fm[o].batch)]_vars

C12_Witness ==
    \E o \in Owners :
        /\ fm[o].kind = "many"
        /\ fm[o].st = "running"
        /\ Len(fm[o].urls) = 7
        /\ fm[o].i = 3
        /\ Cardinality(PendingEntries(fm[o])) = 3
        /\ Len(fm[o].results) = 3

\* in this step the GET of entry k of caller o completes with a failure
FailsNow(o, k) ==
    /\ lastOp' = "get"
    /\ fm[o].st = "running"
    /\ fm'[o] # fm[o]
    /\ k \in PendingEntries(fm[o])
    /\ IF fm'[o].st = "running" /\ fm'[o].i = fm[o].i
       THEN /\ fm'[o].batch[k].st # "pending"
            /\ ~fm'[o].batch[k].val.ok
       ELSE /\ PendingEntries(fm[o]) = {k}
            /\ IF fm[o].kind = "one" THEN fm'[o].st = "rejected"
               ELSE ~fm'[o].results[fm[o].i + k].ok

\* C18: the completion of a failed GET leaves the cache as it was, so the
\* cache never holds anything but the PageContent of a successful fetch; a
\* failed fetchPageContent call is rejected, inside fetchMultiplePages the
\* failure is the error record of its URL, and a fetchPageContent call for
\* a URL that is not in the cache (as after its failed fetch) issues a
\* new request.
C18_FailuresNotCached ==
    /\ [](\A u \in DOMAIN cache : IsPageOf(cache[u], u))
    /\ [][\A o \in Owners : \A k \in 1..3 :
            FailsNow(o, k)
            => /\ cache' = cache
               /\ fm[o].kind = "one" =>
                     /\ fm'[o].st = "rejected"
                     /\ (fm[o].urls[1] \in DOMAIN cache') = (fm[o].urls[1] \in DOMAIN cache)
               /\ fm[o].kind = "many" =>
                     /\ fm'[o].st \in {"running", "resolved"}
                     /\ IF fm'[o].st = "running" /\ fm'[o].i = fm[o].i
                        THEN IsErrorOf(fm'[o].batch[k].val, fm[o].batch[k].url)
                        ELSE IsErrorOf(fm'[o].results[fm[o].i + k], fm[o].batch[k].url)]_vars
    /\ [][\A o \in Owners :
            (/\ lastOp' = "fetchOne"
             /\ fm[o].st = "rejected"
             /\ fm'[o] # fm[o]
             /\ fm'[o].urls[1] \notin DOMAIN cache)
            => /\ fm'[o].st = "running"
               /\ fm'[o].batch[1].st = "pending"
               /\ fm'[o].batch[1].net]_vars

C18_Witness ==
    \E o \in Owners : \E o2 \in Owners \ {o} :
        /\ lastOp = "get"
        /\ fm[o].kind = "one" /\ fm[o].st = "rejected"
        /\ fm[o].urls = <<"U1">>
        /\ DOMAIN cache = {"U2", "U3"}
        /\ fm[o2].kind = "many" /\ fm[o2].st = "resolved"
        /\ Len(fm[o2].urls) = 7
        /\ IsErrorOf(fm[o2].results[1], "U1")
        /\ IsPageOf(fm[o2].results[2], "U2")
        /\ IsErrorOf(fm[o2].results[5], "U1")

\* C19: a fetchPageContent call for a URL that is not in the cache issues
\* a request even when another call's request for the same URL is in
\* flight, and every call whose request succeeds writes its own result to
\* the cache, replacing the entry an earlier completion stored.
C19_LastWriteWins ==
    /\ [][\A o \in Owners : \A o2 \in Owners \ {o} :
            (/\ lastOp' = "fetchOne"
             /\ fm'[o] # fm[o]
             /\ fm[o2].kind = "one" /\ fm[o2].st = "running"
             /\ fm'[o].urls = fm[o2].urls
             /\ fm[o2].urls[1] \notin DOMAIN cache)
            => /\ fm'[o].st = "running"
               /\ fm'[o].batch[1].net
               /\ fm'[o2].st = "running"]_vars
    /\ [][\A o \in Owners :
            (/\ fm[o].kind = "one" /\ fm[o].st = "running"
             /\ fm'[o].st = "resolved")
            => /\ fm[o].urls[1] \in DOMAIN cache'
               /\ cache'[fm[o].urls[1]] = fm'[o].results[1]
               /\ \A u \in DOMAIN cache \ {fm[o].urls[1]} :
                     u \in DOMAIN cache' /\ cache'[u] = cache[u]]_vars

C19_Witness ==
    \E o \in Owners : \E o2 \in Owners \ {o} :
        /\ lastOp = "get"
        /\ fm[o].kind = "one" /\ fm[o].st = "resolved" /\ fm[o].batch[1].net
        /\ fm[o2].kind = "one" /\ fm[o2].st = "resolved" /\ fm[o2].batch[1].net
        /\ fm[o].urls = <<"U1">> /\ fm[o2].urls = <<"U1">>
        /\ fm[o].results[1].fetchedAt = 0
        /\ fm[o2].results[1].fetchedAt = 1
        /\ cache["U1"] = fm[o2].results[1]
        /\ cache["U1"] # fm[o].results[1]

\* the invocation a chat call is dispatching, and its decoded arguments
Dispatching(p) == chat[p].pc = "tool"
CurrentCall(c) == c.toolCalls[c.toolIdx]
CurrentArgs(c) == CurrentCall(c).arguments.val
FirstThree(s) == SubSeq(s, 1, IF Len(s) < 3 THEN Len(s) ELSE 3)

DispatchingFetch(p) ==
    /\ Dispatching(p)
    /\ CurrentCall(chat[p]).name = "fetch_webpage_content"
    /\ CurrentArgs(chat[p]).hasUrls

\* C13: a dispatch of fetch_webpage_content with n URLs hands exactly the
\* first min(n, 3) URLs, in input order, to fetchMultiplePages: the pages
\* being fetched are among them, its result has min(n, 3) elements, the
\* k-th being that of the k-th URL, and the tool message reports that many.
C13_FirstThreeOnly ==
    /\ [](\A p \in Procs :
            DispatchingFetch(p) =>
                LET given == CurrentArgs(chat[p]).urls
                    first == FirstThree(given)
                IN  IF chat[p].toolResult.ready
                    THEN /\ chat[p].toolResult.kind = "pages"
                         /\ Len(chat[p].toolResult.items) = Len(first)
                         /\ \A k \in 1..Len(first) :
                               chat[p].toolResult.items[k].url = given[k]
                    ELSE /\ fm[p].kind = "many"
                         /\ fm[p].urls = first
                         /\ Len(fm[p].batch) <= 3
                         /\ \A k \in 1..Len(fm[p].batch) :
                               fm[p].batch[k].url = given[fm[p].i + k]
                         /\ fm[p].st = "resolved" =>
                               /\ Len(fm[p].results) = Len(first)
                               /\ \A k \in 1..Len(first) : fm[p].results[k].url = given[k])
    /\ [][\A p \in Procs :
            (DispatchingFetch(p) /\ chat'[p] # chat[p])
            => LET n == Len(CurrentArgs(chat[p]).urls)
                   m == Len(chat[p].messages) + 1
               IN  /\ chat'[p].messages[m].role = "tool"
                   /\ chat'[p].messages[m].content = <<"pages", IF n < 3 THEN n ELSE 3>>]_vars
    /\ [][\A u \in (DOMAIN cache') \ (DOMAIN cache) :
            \E p \in Procs :
                /\ DispatchingFetch(p)
                /\ \E k \in 1..3 : /\ k <= Len(CurrentArgs(chat[p]).urls)
                                   /\ CurrentArgs(chat[p]).urls[k] = u]_vars

C13_Witness ==
    \E p \in Procs :
        /\ lastOp = "tool"
        /\ nChats = 1
        /\ chat[p].currentIteration = 2
        /\ Len(chat[p].messages) = 4
        /\ Len(chat[p].messages[3].tool_calls) = 1
        /\ Len(chat[p].messages[3].tool_calls[1].arguments.val.urls) = 5
        /\ chat[p].messages[4].role = "tool"
        /\ chat[p].messages[4].content = <<"pages", 3>>
        /\ DOMAIN cache = {"U4", "U3", "U2"}

\* the dispatched invocation names no known tool, or lacks the argument its
\* tool reads
FailingDispatch(c) ==
    \/ CurrentCall(c).name \notin {"search_website_urls", "fetch_webpage_content"}
    \/ CurrentCall(c).name = "search_website_urls" /\ ~CurrentArgs(c).hasQuery
    \/ CurrentCall(c).name = "fetch_webpage_content" /\ ~CurrentArgs(c).hasUrls

\* C14 (as stated): a dispatch with an unknown name or a failing execution
\* yields the {error} payload, which is appended as the tool message of the
\* invocation, and the turn goes on (next dispatch or next model call)
\* instead of ending.
C14_Original ==
    /\ [](\A p \in Procs :
            (Dispatching(p) /\ FailingDispatch(chat[p]))
            => chat[p].toolResult.ready /\ chat[p].toolResult.kind = "error")
    /\ [][\A p \in Procs :
            (Dispatching(p) /\ FailingDispatch(chat[p]) /\ chat'[p] # chat[p])
            => LET m == Len(chat[p].messages) + 1
               IN  /\ chat'[p].messages[m].role = "tool"
                   /\ chat'[p].messages[m].tool_call_id = CurrentCall(chat[p]).id
                   /\ chat'[p].messages[m].content = <<"error", 0>>
                   /\ chat'[p].pc \in {"tool", "http"}]_vars

\* C14 (amended): a dispatch with an unknown name or a failing execution
\* never raises: it yields the {error} payload, which is appended as the
\* tool message of the invocation, and the turn continues as after any
\* dispatch: with the next invocation of the same assistant message, or,
\* after the last one, with the next model call; it ends there only when
\* the next invocation's arguments cannot be decoded ("trouble processing")
\* or when this was the 10th iteration ("taking too long").
C14_ErrorPayloadContinues ==
    /\ [](\A p \in Procs :
            /\ chat[p].pc \in {"idle", "http", "backoff", "tool", "done"}
            /\ (Dispatching(p) /\ FailingDispatch(chat[p]))
                  => chat[p].toolResult.ready /\ chat[p].toolResult.kind = "error")
    /\ [][\A p \in Procs :
            (Dispatching(p) /\ FailingDispatch(chat[p]) /\ chat'[p] # chat[p])
            => LET m == Len(chat[p].messages) + 1
                   c == chat[p]
               IN  /\ chat'[p].messages[m].role = "tool"
                   /\ chat'[p].messages[m].tool_call_id = CurrentCall(c).id
                   /\ chat'[p].messages[m].content = <<"error", 0>>
                   /\ IF c.toolIdx < Len(c.toolCalls)
                      THEN IF c.toolCalls[c.toolIdx + 1].arguments.wellFormed
                           THEN /\ chat'[p].pc = "tool"
                                /\ chat'[p].toolIdx = c.toolIdx + 1
                           ELSE /\ chat'[p].pc = "done"
                                /\ chat'[p].result = <<"trouble processing", 0>>
                      ELSE IF c.currentIteration < 10
                           THEN /\ chat'[p].pc = "http"
                                /\ chat'[p].apiCalls = c.apiCalls + 1
                                /\ Len(chat'[p].messages) = m
                           ELSE /\ chat'[p].pc = "done"
                                /\ chat'[p].result = <<"taking too long", 0>>]_vars

C14_Witness ==
    \E p \in Procs :
        /\ lastOp = "tool"
        /\ chat[p].pc = "http"
        /\ chat[p].currentIteration = 2
        /\ Len(chat[p].messages) = 6
        /\ Len(chat[p].messages[3].tool_calls) = 3
        /\ chat[p].messages[4].content = <<"error", 0>>
        /\ chat[p].messages[4].name = "send_email"
        /\ chat[p].messages[5].content = <<"pages", 2>>
        /\ chat[p].messages[6].content = <<"error", 0>>
        /\ chat[p].messages[6].name = "search_website_urls"

\* C20: while an invocation of an assistant message is being dispatched,
\* the outgoing sequence ends with that assistant message followed by the
\* tool messages of exactly the invocations before it, in order; pages are
\* fetched only for the invocation being dispatched; and the dispatch of
\* the next invocation starts in the very step that appends the tool
\* message of the current one.
C20_SerialDispatch ==
    /\ [](\A p \in Procs :
            Dispatching(p) =>
                LET c == chat[p]
                    a == Len(c.messages) - (c.toolIdx - 1)
                IN  /\ c.toolIdx \in 1..Len(c.toolCalls)
                    /\ a >= 1
                    /\ c.messages[a].role = "assistant"
                    /\ c.messages[a].tool_calls = c.toolCalls
                    /\ \A k \in 1..(c.toolIdx - 1) :
                          /\ c.messages[a + k].role = "tool"
                          /\ c.messages[a + k].tool_call_id = c.toolCalls[k].id
                          /\ c.messages[a + k].name = c.toolCalls[k].name
                    /\ fm[p].st = "running" =>
                          /\ CurrentCall(c).name = "fetch_webpage_content"
                          /\ fm[p].urls = FirstThree(CurrentArgs(c).urls))
    /\ [](\A p \in Procs : ~Dispatching(p) => fm[p].st # "running")
    /\ [][\A p \in Procs :
            (Dispatching(p) /\ chat'[p] # chat[p])
            => /\ lastOp' = "tool"
               /\ Len(chat'[p].messages) = Len(chat[p].messages) + 1
               /\ SubSeq(chat'[p].messages, 1, Len(chat[p].messages)) = chat[p].messages
               /\ LastMessage(chat'[p]).role = "tool"
               /\ LastMessage(chat'[p]).tool_call_id = CurrentCall(chat[p]).id
               /\ (chat'[p].pc = "tool") =>
                     /\ chat'[p].toolCalls = chat[p].toolCalls
                     /\ chat'[p].toolIdx = chat[p].toolIdx + 1]_vars

C20_Witness ==
    \E p \in Procs :
        /\ Dispatching(p)
        /\ Len(chat[p].toolCalls) = 3
        /\ chat[p].toolIdx = 2
        /\ fm[p].st = "running"
        /\ Cardinality(PendingEntries(fm[p])) = 1
        /\ LastMessage(chat[p]).role = "tool"
        /\ LastMessage(chat[p]).tool_call_id = 1

\* C15: a response whose choices[0].message is missing, or carries neither
\* content nor tool_calls, is treated as an error: the chat call returns
\* the "trouble processing" message for it, never the missing content as
\* its answer, and no assistant entry without content enters the stored
\* history.
C15_MalformedIsError ==
    /\ \A p \in Procs :
          Returned(p) =>
              /\ chat[p].result # <<"undefined", 0>>
              /\ (IsPlainAnswer(LastMessage(chat[p]))
                    /\ LastMessage(chat[p]).content = <<"undefined", 0>>)
                    => chat[p].result = <<"trouble processing", 0>>
    /\ \A i \in 1..Len(conversationHistory) :
          conversationHistory[i].content # <<"undefined", 0>>

\* a search was made; the position of a URL in the index
Searched == search.via # "none"
IndexOf(u) == CHOOSE i \in 1..Len(urls) : urls[i].url = u

\* C16: a search, asked directly or through a search_website_urls dispatch
\* given the limit, returns at most limit records, each with score > 0, in
\* descending order of score, records of equal score in index order.
C16_SearchBound ==
    Searched =>
        /\ ~search.error
        /\ Len(search.results) <= search.limit
        /\ \A k \in 1..Len(search.results) : search.results[k].score > 0
        /\ \A k \in 1..Len(search.results) : \A j \in (k + 1)..Len(search.results) :
              /\ search.results[k].score >= search.results[j].score
              /\ search.results[k].score = search.results[j].score
                    => IndexOf(search.results[k].url) < IndexOf(search.results[j].url)

\* the score as the claim words it
RECURSIVE TokensFound(_, _)
TokensFound(tokens, text) ==
    IF tokens = <<>> THEN 0
    ELSE (IF Len(Head(tokens)) > 2 /\ Includes(text, Head(tokens)) THEN 1 ELSE 0)
         + TokensFound(Tail(tokens), text)

ClaimedScore(rec, query) ==
    LET q == ToLowerCase(query)
        product == \/ Includes(q, <<"p","r","o","d","u","c","t">>)
                   \/ Includes(q, <<"p","r","i","c","i","n","g">>)
                   \/ Includes(q, <<"b","u","y">>)
        blog == \/ Includes(q, <<"b","l","o","g">>)
                \/ Includes(q, <<"a","r","t","i","c","l","e">>)
                \/ Includes(q, <<"h","o","w"," ","t","o">>)
    IN  (IF Includes(rec.keywords, q) THEN 100 ELSE 0)
        + 10 * TokensFound(Split(q), rec.keywords)
        + (IF product /\ rec.category = "product" THEN 20 ELSE 0)
        + (IF blog /\ rec.category = "blog" THEN 20 ELSE 0)

Matching(query) == {i \in 1..Len(urls) : ClaimedScore(urls[i], query) > 0}

\* C17: every record a search returns carries the score 100 (whole
\* lower-cased query in the keyword text) + 10 per query token longer than
\* 2 characters found in the keyword text + 20 (product query, product
\* record) + 20 (blog query, blog record); a search whose limit covers them
\* returns exactly the records of positive score; and for the query
\* "wordpress hosting" the record "wordpress hosting" scores 120, the
\* record "blog wordpress tips" scores 10, returned in that order.
C17_Scoring ==
    Searched =>
        /\ \A k \in 1..Len(search.results) :
              /\ search.results[k].url = urls[IndexOf(search.results[k].url)].url
              /\ search.results[k].keywords = urls[IndexOf(search.results[k].url)].keywords
              /\ search.results[k].score =
                    ClaimedScore(urls[IndexOf(search.results[k].url)], search.query)
        /\ (search.limit >= Cardinality(Matching(search.query)) /\ search.limit >= 1)
              => /\ Len(search.results) = Cardinality(Matching(search.query))
                 /\ \A i \in Matching(search.query) :
                       \E k \in 1..Len(search.results) : search.results[k].url = urls[i].url
        /\ (/\ search.query = <<"w","o","r","d","p","r","e","s","s"," ","h","o","s","t","i","n","g">>
            /\ urls[1].keywords = <<"w","o","r","d","p","r","e","s","s"," ","h","o","s","t","i","n","g">>
            /\ urls[2].keywords = 
                  <<"b","l","o","g"," ","w","o","r","d","p","r","e","s","s"," ","t","i","p","s">>
            /\ search.limit >= 2)
              => /\ search.results[1].url = urls[1].url
                 /\ search.results[1].score = 120
                 /\ search.results[2].url = urls[2].url
                 /\ search.results[2].score = 10

C17_Witness ==
    /\ search.via = "direct"
    /\ search.limit = 5
    /\ search.query = <<"w","o","r","d","p","r","e","s","s"," ","h","o","s","t","i","n","g">>
    /\ Len(search.results) = 2
    /\ search.results[1].keywords = <<"w","o","r","d","p","r","e","s","s"," ","h","o","s","t","i","n","g">>
    /\ search.results[1].score = 120
    /\ search.results[2].keywords = 
          <<"b","l","o","g"," ","w","o","r","d","p","r","e","s","s"," ","t","i","p","s">>
    /\ search.results[2].score = 10

\* the invocation at which the dispatch loop of a chat call stands has
\* arguments that cannot be decoded
StoppedAtGarbled(c) ==
    /\ c.toolIdx \in 1..Len(c.toolCalls)
    /\ ~c.toolCalls[c.toolIdx].arguments.wellFormed

\* C25: when the dispatch loop reaches an invocation whose arguments cannot
\* be decoded, the chat call has returned the "trouble processing" message:
\* the outgoing sequence holds the tool messages of the invocations before
\* it and none for it or for those after it, no page is being fetched, and
\* the step that reaches it makes no model call and leaves the stored
\* history unchanged.
C25_GarbledEndsTurn ==
    /\ [](\A p \in Procs :
            StoppedAtGarbled(chat[p]) =>
                LET c == chat[p]
                    a == Len(c.messages) - (c.toolIdx - 1)
                IN  /\ c.pc = "done"
                    /\ c.result = <<"trouble processing", 0>>
                    /\ c.api = "fulfilled"
                    /\ a >= 1
                    /\ c.messages[a].role = "assistant"
                    /\ c.messages[a].tool_calls = c.toolCalls
                    /\ \A k \in 1..(c.toolIdx - 1) :
                          /\ c.messages[a + k].role = "tool"
                          /\ c.messages[a + k].tool_call_id = c.toolCalls[k].id
                    /\ ~c.toolResult.ready
                    /\ fm[p].st # "running")
    /\ [][\A p \in Procs :
            (StoppedAtGarbled(chat'[p]) /\ chat'[p] # chat[p] /\ lastOp' # "chat")
            => /\ chat[p].pc \in {"http", "tool"}
               /\ chat'[p].apiCalls = chat[p].apiCalls
               /\ chat'[p].currentIteration = chat[p].currentIteration
               /\ conversationHistory' = conversationHistory
               /\ cache' = cache]_vars
    /\ [][\A p \in Procs :
            (StoppedAtGarbled(chat[p]) /\ lastOp' # "chat") => chat'[p] = chat[p]]_vars

C25_Witness ==
    \E p \in Procs :
        /\ StoppedAtGarbled(chat[p])
        /\ chat[p].toolIdx = 1
        /\ Len(chat[p].toolCalls) = 2
        /\ chat[p].toolCalls[2].name = "fetch_webpage_content"
        /\ chat[p].currentIteration = 2
        /\ LastMessage(chat[p]).role = "assistant"
        /\ chat[p].result = <<"trouble processing", 0>>
        /\ DOMAIN cache = {}

\* the step completes chat call p with a plain answer
AnswersNow(p) ==
    /\ chat[p].pc = "http"
    /\ chat'[p] # chat[p]
    /\ EndedWithAnswer(chat'[p])

IsUserEntry(m) == m.role = "user" /\ m.tool_calls = <<>> /\ m.content[1] = "user"
IsAnswerEntry(m) == m.role = "assistant" /\ m.tool_calls = <<>> /\ m.content[1] = "answer"

\* C22: whatever chat calls and resets have run, the stored history has
\* even length (at most 10) and is a sequence of pairs: a user entry
\* followed by the plain assistant answer of the same turn; it holds no
\* system message, no tool message and no assistant tool request.
C22_HistoryPairs ==
    /\ Len(conversationHistory) % 2 = 0
    /\ Len(conversationHistory) <= 10
    /\ \A i \in 1..Len(conversationHistory) :
          /\ conversationHistory[i].role \in {"user", "assistant"}
          /\ conversationHistory[i].tool_calls = <<>>
          /\ conversationHistory[i].tool_call_id = 0
          /\ i % 2 = 1 => IsUserEntry(conversationHistory[i])
          /\ i % 2 = 0 =>
                /\ IsAnswerEntry(conversationHistory[i])
                /\ conversationHistory[i].content[2] = conversationHistory[i - 1].content[2]

C22_Witness ==
    \E p \in Procs :
        /\ EndedWithAnswer(chat[p])
        /\ chat[p].userMessage = <<"user", 6>>
        /\ Len(HistoryAtStart(chat[p])) = 10
        /\ HistoryAtStart(chat[p])[1].content = <<"user", 1>>
        /\ HistoryAtStart(chat[p])[3].content = <<"user", 2>>
        /\ Len(conversationHistory) = 10
        /\ conversationHistory[1].content = <<"user", 2>>
        /\ conversationHistory[9].content = <<"user", 6>>
        /\ conversationHistory[10].content = <<"answer", 6>>

\* C23: resetConversation leaves the chat calls in flight as they are; a
\* call that ends with a plain answer while the stored history is empty
\* (also when it found a non-empty history at its start, that is after a
\* reset) leaves its user message and answer as the history; and a chat
\* call that starts sends the stored history as it finds it.
C23_ResetDuringChat ==
    /\ [][lastOp' = "reset" => chat' = chat /\ conversationHistory' = <<>>]_vars
    /\ [][\A p \in Procs :
            (AnswersNow(p) /\ conversationHistory = <<>>)
            => /\ Len(conversationHistory') = 2
               /\ conversationHistory'[1].role = "user"
               /\ conversationHistory'[1].content = chat[p].userMessage
               /\ conversationHistory'[2].role = "assistant"
               /\ conversationHistory'[2].content = chat'[p].result]_vars
    /\ [][\A p \in Procs :
            (lastOp' = "chat" /\ chat'[p] # chat[p])
            => /\ Len(chat'[p].messages) = Len(conversationHistory) + 2
               /\ chat'[p].messages[1].role = "system"
               /\ SubSeq(chat'[p].messages, 2, Len(conversationHistory) + 1)
                     = conversationHistory
               /\ LastMessage(chat'[p]).content = chat'[p].userMessage]_vars

C23_Witness ==
    /\ lastOp = "chat"
    /\ nChats = 3
    /\ EndedWithAnswer(chat[2])
    /\ chat[2].userMessage = <<"user", 2>>
    /\ Len(HistoryAtStart(chat[2])) = 2
    /\ HistoryAtStart(chat[2])[1].content = <<"user", 1>>
    /\ chat[1].pc = "http"
    /\ Len(chat[1].messages) = 4
    /\ chat[1].messages[2].content = <<"user", 2>>
    /\ chat[1].messages[3].content = <<"answer", 2>>
    /\ chat[1].messages[4].content = <<"user", 3>>

\* C24: a chat call that ends with a plain answer appends its exchange to
\* the stored history as it is then, every earlier entry kept in place up
\* to the 10-entry trim; the outgoing sequence of a call only grows, so its
\* copy of the history is the one of its start; and the user message of a
\* call still in flight is neither in the history nor in the sequence of
\* any other call.
C24_NoExchangeLost ==
    /\ [][\A p \in Procs :
            AnswersNow(p)
            => LET old == Len(conversationHistory)
                   shift == IF old + 2 > 10 THEN old + 2 - 10 ELSE 0
                   new == Len(conversationHistory')
               IN  /\ new = old + 2 - shift
                   /\ \A i \in (shift + 1)..old :
                         conversationHistory'[i - shift] = conversationHistory[i]
                   /\ conversationHistory'[new - 1].content = chat[p].userMessage
                   /\ conversationHistory'[new].content = chat'[p].result]_vars
    /\ [][\A p \in Procs :
            (InFlight(p) /\ ~(lastOp' = "chat" /\ chat'[p] # chat[p]))
            => /\ Len(chat'[p].messages) >= Len(chat[p].messages)
               /\ SubSeq(chat'[p].messages, 1, Len(chat[p].messages)) = chat[p].messages]_vars
    /\ [](\A q \in Procs :
            InFlight(q) =>
                /\ \A i \in 1..Len(conversationHistory) :
                      conversationHistory[i].content # chat[q].userMessage
                /\ \A p \in Procs \ {q} : \A i \in 1..Len(chat[p].messages) :
                      chat[p].messages[i].content # chat[q].userMessage)

C24_Witness ==
    /\ EndedWithAnswer(chat[1])
    /\ EndedWithAnswer(chat[2])
    /\ chat[1].userMessage = <<"user", 1>>
    /\ chat[2].userMessage = <<"user", 2>>
    /\ Len(chat[1].messages) = 3
    /\ ToolRounds(chat[2]) = 1
    /\ Len(HistoryAtStart(chat[2])) = 0
    /\ Len(conversationHistory) = 4
    /\ conversationHistory[1].content = <<"user", 2>>
    /\ conversationHistory[2].content = <<"answer", 2>>
    /\ conversationHistory[3].content = <<"user", 1>>
    /\ conversationHistory[4].content = <<"answer", 1>>

\* C21: every chat call in flight eventually returns; it makes at most 10
\* model calls of at most 3 attempts each, and what it returns is the
\* model's plain answer (DONE), the "taking too long" message (ABORTED) or
\* the "trouble processing" message (failure).
C21_Terminates ==
    /\ \A p \in Procs : InFlight(p) ~> Returned(p)
    /\ [](\A p \in Procs :
            /\ chat[p].apiCalls <= 10
            /\ chat[p].attempt <= 3
            /\ Len(chat[p].waits) <= 2
            /\ Returned(p) =>
                  \/ EndedWithAnswer(chat[p])
                  \/ chat[p].result = <<"taking too long", 0>>
                  \/ chat[p].result = <<"trouble processing", 0>>)

C21_Witness ==
    \E p \in Procs :
        /\ Returned(p)
        /\ chat[p].apiCalls = 10
        /\ chat[p].attempt = 3
        /\ chat[p].api = "rejected"
        /\ chat[p].result = <<"trouble processing", 0>>
        /\ ToolRounds(chat[p]) = 9
        /\ DOMAIN cache = {"U2"}

=============================================================================
